---- MODULE Spec2Model ----
(***************************************************************************)
(* Hamming distances of rust_hamming_distance.                             *)
(*                                                                         *)
(* The crate has seven trait implementations: the bitwise distance on &u8, *)
(* &Vec<u8> and &[u8] (bitwise_hamming_distance.rs) and the element        *)
(* distance on &Vec<T>, &[T], &String and &str (hamming_distance.rs).      *)
(* Each is a pure function.  A behaviour of the model is one call: Init    *)
(* draws the implementation and its two arguments, the implementation's    *)
(* action runs the whole function body and stores what it returned.        *)
(*                                                                         *)
(* A u32 is kept as two 16-bit limbs <<hi, lo>> so that the accumulator of *)
(* the scans has its real width.  A String / &str is kept as its UTF-8     *)
(* bytes: len() is the number of bytes, chars() decodes code points.       *)
(***************************************************************************)
EXTENDS Integers, Sequences, FiniteSets, TLC

VARIABLES
    kind,             \* which implementation is called
    self,             \* the receiver
    other,            \* the argument
    overflow_checks,  \* build profile: TRUE = overflow panics, FALSE = it wraps
    pc,               \* "call" before the call, "done" after it
    result            \* what the call produced

vars == <<kind, self, other, overflow_checks, pc, result>>

-----------------------------------------------------------------------------
(* Bounds of the model. *)

\* longest Vec / slice drawn by Init
MaxLen == 3
\* most characters in a String / &str drawn by Init
MaxStrChars == 3
\* elements per block of a repeated vector (vec![x; n]), SpecLarge only
BlockLen == 67108864
\* most blocks in a repeated vector, SpecLarge only
MaxBlocks == 9

-----------------------------------------------------------------------------
(* u8 and u32 arithmetic. *)

U8_BITS == 8

Limb == 2^16

bit(x, i) == (x \div (2^i)) % 2

RECURSIVE bitxor_from(_, _, _)
bitxor_from(a, b, i) ==
    IF i = U8_BITS THEN 0
    ELSE ((bit(a, i) + bit(b, i)) % 2) * 2^i + bitxor_from(a, b, i + 1)

\* `self ^ other` on u8
bitxor(a, b) == bitxor_from(a, b, 0)

RECURSIVE bits_set(_, _)
bits_set(x, n) ==
    IF n = 0 THEN 0 ELSE (x % 2) + bits_set(x \div 2, n - 1)

\* a plausible slip: the sign bit is left out of the count
count_ones_low7(x) == bits_set(x, U8_BITS - 1)

\* u8::count_ones
count_ones(x) == bits_set(x, U8_BITS)

\* a u32 from a natural below 2^31
u32(n) == <<n \div Limb, n % Limb>>

\* the natural a u32 stands for (used only below 2^31)
to_nat(v) == v[1] * Limb + v[2]

u32_carry(x, y) == (x[2] + y[2]) \div Limb

u32_overflows(x, y) == x[1] + y[1] + u32_carry(x, y) >= Limb

wrapping_add(x, y) ==
    <<(x[1] + y[1] + u32_carry(x, y)) % Limb, (x[2] + y[2]) % Limb>>

\* `acc += x` on u32: with overflow checks an overflow panics, without it wraps
add_assign(acc, x, checks) ==
    IF u32_overflows(acc, x) /\ checks
    THEN [panicked |-> TRUE, val |-> acc]
    ELSE [panicked |-> FALSE, val |-> wrapping_add(acc, x)]

-----------------------------------------------------------------------------
(* What a call produces: the returned value and how many pairs the zip     *)
(* handed to the loop body before the function returned.                   *)

Ok(v) == <<"Ok", v>>
Err(msg) == <<"Err", msg>>
Value(n) == <<"U32", n>>
Panic == <<"Panic">>
Pending == <<"Pending">>

Frame(ret, scanned) == [ret |-> ret, scanned |-> scanned]

-----------------------------------------------------------------------------
(* bitwise_hamming_distance.rs *)

\* impl BitwiseHammingDistancable<&u8> for &u8
u8_bitwise_hamming_distance(a, b) == count_ones(bitxor(a, b))

\* a plausible slip: `distance = ...` for `distance += ...`
vec_u8_loop_body_assign(distance, b1, b2, checks) ==
    add_assign(u32(0), u32(u8_bitwise_hamming_distance(b1, b2)), checks)

\* Vec<u8>: `distance += b1.bitwise_hamming_distance(b2);`
vec_u8_loop_body(distance, b1, b2, checks) ==
    add_assign(distance, u32(u8_bitwise_hamming_distance(b1, b2)), checks)

\* Vec<u8>: `for (b1, b2) in self.iter().zip(other.iter())`, then `Ok(distance)`
RECURSIVE vec_u8_loop(_, _, _, _, _)
vec_u8_loop(a, b, i, distance, checks) ==
    IF i > Len(a) \/ i > Len(b) THEN Frame(Ok(distance), i - 1)
    ELSE LET s == vec_u8_loop_body(distance, a[i], b[i], checks)
         IN  IF s.panicked THEN Frame(Panic, i)
             ELSE vec_u8_loop(a, b, i + 1, s.val, checks)

\* a plausible slip: `<` for `!=` in the length check
vec_u8_bitwise_hamming_distance_lt(a, b, checks) ==
    IF Len(a) < Len(b)
    THEN Frame(Err("Vectors do not have equal length"), 0)
    ELSE vec_u8_loop(a, b, 1, u32(0), checks)

\* impl BitwiseHammingDistancable<&Vec<u8>> for &Vec<u8>
vec_u8_bitwise_hamming_distance(a, b, checks) ==
    IF Len(a) # Len(b)
    THEN Frame(Err("Vectors do not have equal length"), 0)
    ELSE vec_u8_loop(a, b, 1, u32(0), checks)

\* &[u8]: `distance += b1.bitwise_hamming_distance(b2);`
slice_u8_loop_body(distance, b1, b2, checks) ==
    add_assign(distance, u32(u8_bitwise_hamming_distance(b1, b2)), checks)

\* &[u8]: `for (b1, b2) in self.iter().zip(other.iter())`, then `Ok(distance)`
RECURSIVE slice_u8_loop(_, _, _, _, _)
slice_u8_loop(a, b, i, distance, checks) ==
    IF i > Len(a) \/ i > Len(b) THEN Frame(Ok(distance), i - 1)
    ELSE LET s == slice_u8_loop_body(distance, a[i], b[i], checks)
         IN  IF s.panicked THEN Frame(Panic, i)
             ELSE slice_u8_loop(a, b, i + 1, s.val, checks)

\* impl BitwiseHammingDistancable<&[u8]> for &[u8]
slice_u8_bitwise_hamming_distance(a, b, checks) ==
    IF Len(a) # Len(b)
    THEN Frame(Err("Slices do not have equal length"), 0)
    ELSE slice_u8_loop(a, b, 1, u32(0), checks)

-----------------------------------------------------------------------------
(* hamming_distance.rs: Vec<T> and &[T], T: Eq *)

\* Vec<T>: `if a != b { distance += 1; }`
vec_loop_body(distance, a, b, checks) ==
    IF a # b THEN add_assign(distance, u32(1), checks)
    ELSE [panicked |-> FALSE, val |-> distance]

\* Vec<T>: `for (a, b) in self.iter().zip(other.iter())`, then `Ok(distance)`
RECURSIVE vec_loop(_, _, _, _, _)
vec_loop(a, b, i, distance, checks) ==
    IF i > Len(a) \/ i > Len(b) THEN Frame(Ok(distance), i - 1)
    ELSE LET s == vec_loop_body(distance, a[i], b[i], checks)
         IN  IF s.panicked THEN Frame(Panic, i)
             ELSE vec_loop(a, b, i + 1, s.val, checks)

\* impl HammingDistancable<&Vec<T>> for &Vec<T>
vec_hamming_distance(a, b, checks) ==
    IF Len(a) # Len(b)
    THEN Frame(Err("Vectors do not have equal length"), 0)
    ELSE vec_loop(a, b, 1, u32(0), checks)

\* a plausible slip: `==` for `!=` in the comparison
slice_loop_body_eq(distance, a, b, checks) ==
    IF a = b THEN add_assign(distance, u32(1), checks)
    ELSE [panicked |-> FALSE, val |-> distance]

\* &[T]: `if a != b { distance += 1; }`
slice_loop_body(distance, a, b, checks) ==
    IF a # b THEN add_assign(distance, u32(1), checks)
    ELSE [panicked |-> FALSE, val |-> distance]

\* &[T]: `for (a, b) in self.iter().zip(other.iter())`, then `Ok(distance)`
RECURSIVE slice_loop(_, _, _, _, _)
slice_loop(a, b, i, distance, checks) ==
    IF i > Len(a) \/ i > Len(b) THEN Frame(Ok(distance), i - 1)
    ELSE LET s == slice_loop_body(distance, a[i], b[i], checks)
         IN  IF s.panicked THEN Frame(Panic, i)
             ELSE slice_loop(a, b, i + 1, s.val, checks)

\* impl HammingDistancable<&[T]> for &[T]
slice_hamming_distance(a, b, checks) ==
    IF Len(a) # Len(b)
    THEN Frame(Err("Slices do not have equal length"), 0)
    ELSE slice_loop(a, b, 1, u32(0), checks)

-----------------------------------------------------------------------------
(* hamming_distance.rs: String and &str.  The text is its UTF-8 bytes.     *)

\* char::encode_utf8: the bytes of one code point
encode_utf8(c) ==
    IF c < 128 THEN <<c>>
    ELSE IF c < 2048 THEN <<192 + (c \div 64), 128 + (c % 64)>>
    ELSE IF c < 65536
         THEN <<224 + (c \div 4096), 128 + ((c \div 64) % 64), 128 + (c % 64)>>
    ELSE <<240 + (c \div 262144), 128 + ((c \div 4096) % 64),
           128 + ((c \div 64) % 64), 128 + (c % 64)>>

\* a string literal: the concatenated encodings of its characters
RECURSIVE to_owned(_)
to_owned(cs) ==
    IF cs = <<>> THEN <<>> ELSE encode_utf8(Head(cs)) \o to_owned(Tail(cs))

\* Chars::next: the code point that starts at byte p, and its width in bytes
next_code_point(s, p) ==
    LET b0 == s[p] IN
    IF b0 < 128 THEN [ch |-> b0, width |-> 1]
    ELSE IF b0 < 224
         THEN [ch |-> ((b0 % 32) * 64) + (s[p + 1] % 64), width |-> 2]
    ELSE IF b0 < 240
         THEN [ch |-> ((b0 % 16) * 4096) + ((s[p + 1] % 64) * 64)
                      + (s[p + 2] % 64),
               width |-> 3]
    ELSE [ch |-> ((b0 % 8) * 262144) + ((s[p + 1] % 64) * 4096)
                 + ((s[p + 2] % 64) * 64) + (s[p + 3] % 64),
          width |-> 4]

\* a plausible slip: `==` for `!=` in the comparison
string_loop_body_eq(distance, a, b, checks) ==
    IF a.ch = b.ch THEN add_assign(distance, u32(1), checks)
    ELSE [panicked |-> FALSE, val |-> distance]

\* String: `if a != b { distance += 1; }`
string_loop_body(distance, a, b, checks) ==
    IF a.ch # b.ch THEN add_assign(distance, u32(1), checks)
    ELSE [panicked |-> FALSE, val |-> distance]

\* String: `for (a, b) in self.chars().zip(other.chars())`, then `Ok(distance)`
\* pa, pb: the byte each Chars iterator stands at; n: pairs handed out so far
RECURSIVE string_loop(_, _, _, _, _, _, _)
string_loop(a, b, pa, pb, n, distance, checks) ==
    IF pa > Len(a) \/ pb > Len(b) THEN Frame(Ok(distance), n)
    ELSE LET ca == next_code_point(a, pa)
             cb == next_code_point(b, pb)
             s == string_loop_body(distance, ca, cb, checks)
         IN  IF s.panicked THEN Frame(Panic, n + 1)
             ELSE string_loop(a, b, pa + ca.width, pb + cb.width, n + 1,
                              s.val, checks)

\* a plausible slip: the length check is left out and zip truncates
string_hamming_distance_unchecked(a, b, checks) ==
    string_loop(a, b, 1, 1, 0, u32(0), checks)

\* impl HammingDistancable<&String> for &String
string_hamming_distance(a, b, checks) ==
    IF Len(a) # Len(b)
    THEN Frame(Err("Strings do not have equal length"), 0)
    ELSE string_loop(a, b, 1, 1, 0, u32(0), checks)

\* a plausible slip: the byte width of the character is added, not 1
borrowed_string_loop_body_width(distance, a, b, checks) ==
    IF a.ch # b.ch THEN add_assign(distance, u32(a.width), checks)
    ELSE [panicked |-> FALSE, val |-> distance]

\* &str: `if a != b { distance += 1; }`
borrowed_string_loop_body(distance, a, b, checks) ==
    IF a.ch # b.ch THEN add_assign(distance, u32(1), checks)
    ELSE [panicked |-> FALSE, val |-> distance]

\* &str: `for (a, b) in self.chars().zip(other.chars())`, then `Ok(distance)`
RECURSIVE borrowed_string_loop(_, _, _, _, _, _, _)
borrowed_string_loop(a, b, pa, pb, n, distance, checks) ==
    IF pa > Len(a) \/ pb > Len(b) THEN Frame(Ok(distance), n)
    ELSE LET ca == next_code_point(a, pa)
             cb == next_code_point(b, pb)
             s == borrowed_string_loop_body(distance, ca, cb, checks)
         IN  IF s.panicked THEN Frame(Panic, n + 1)
             ELSE borrowed_string_loop(a, b, pa + ca.width, pb + cb.width,
                                       n + 1, s.val, checks)

\* a plausible slip: `>` for `!=` in the length check
borrowed_string_hamming_distance_gt(a, b, checks) ==
    IF Len(a) > Len(b)
    THEN Frame(Err("Strings do not have equal length"), 0)
    ELSE borrowed_string_loop(a, b, 1, 1, 0, u32(0), checks)

\* impl HammingDistancable<&str> for &str
borrowed_string_hamming_distance(a, b, checks) ==
    IF Len(a) # Len(b)
    THEN Frame(Err("Strings do not have equal length"), 0)
    ELSE borrowed_string_loop(a, b, 1, 1, 0, u32(0), checks)

-----------------------------------------------------------------------------
(* The inputs Init draws. *)

Bytes == 0 .. 255

\* the bytes of the crate's tests: 0x01, 0x03, 0xFF
ByteSamples == {1, 3, 255}

\* three values of an element type T: Eq
Elems == {"a", "b", "c"}

\* 'a', U+00E9, U+20AC, U+1F600: one, two, three and four bytes of UTF-8
Chars == {97, 233, 8364, 128512}

SeqsUpTo(S, n) == UNION {[1 .. k -> S] : k \in 0 .. n}

ByteSeqs == SeqsUpTo(ByteSamples, MaxLen)

ElemSeqs == SeqsUpTo(Elems, MaxLen)

Texts == {to_owned(cs) : cs \in SeqsUpTo(Chars, MaxStrChars)}

Kinds == {"u8", "vec_u8", "slice_u8", "vec", "slice", "string", "str"}

Inputs(k) ==
    CASE k = "u8" -> Bytes
      [] k \in {"vec_u8", "slice_u8"} -> ByteSeqs
      [] k \in {"vec", "slice"} -> ElemSeqs
      [] k \in {"string", "str"} -> Texts

-----------------------------------------------------------------------------
(* One call. *)

Init ==
    /\ pc = "call"
    /\ result = Frame(Pending, 0)
    /\ overflow_checks \in BOOLEAN
    /\ kind \in Kinds
    /\ self \in Inputs(kind)
    /\ other \in Inputs(kind)

CallU8 ==
    /\ pc = "call"
    /\ kind = "u8"
    /\ result' = Frame(Value(u8_bitwise_hamming_distance(self, other)), 0)
    /\ pc' = "done"
    /\ UNCHANGED <<kind, self, other, overflow_checks>>

CallVecU8 ==
    /\ pc = "call"
    /\ kind = "vec_u8"
    /\ result' = vec_u8_bitwise_hamming_distance(self, other, overflow_checks)
    /\ pc' = "done"
    /\ UNCHANGED <<kind, self, other, overflow_checks>>

CallSliceU8 ==
    /\ pc = "call"
    /\ kind = "slice_u8"
    /\ result' = slice_u8_bitwise_hamming_distance(self, other, overflow_checks)
    /\ pc' = "done"
    /\ UNCHANGED <<kind, self, other, overflow_checks>>

CallVec ==
    /\ pc = "call"
    /\ kind = "vec"
    /\ result' = vec_hamming_distance(self, other, overflow_checks)
    /\ pc' = "done"
    /\ UNCHANGED <<kind, self, other, overflow_checks>>

CallSlice ==
    /\ pc = "call"
    /\ kind = "slice"
    /\ result' = slice_hamming_distance(self, other, overflow_checks)
    /\ pc' = "done"
    /\ UNCHANGED <<kind, self, other, overflow_checks>>

CallString ==
    /\ pc = "call"
    /\ kind = "string"
    /\ result' = string_hamming_distance(self, other, overflow_checks)
    /\ pc' = "done"
    /\ UNCHANGED <<kind, self, other, overflow_checks>>

CallStr ==
    /\ pc = "call"
    /\ kind = "str"
    /\ result' = borrowed_string_hamming_distance(self, other, overflow_checks)
    /\ pc' = "done"
    /\ UNCHANGED <<kind, self, other, overflow_checks>>

Next ==
    \/ CallU8
    \/ CallVecU8
    \/ CallSliceU8
    \/ CallVec
    \/ CallSlice
    \/ CallString
    \/ CallStr

Spec == Init /\ [][Next]_vars

\* the call `kind` names, as a function of its arguments
Apply(k, a, b, checks) ==
    CASE k = "u8" -> Frame(Value(u8_bitwise_hamming_distance(a, b)), 0)
      [] k = "vec_u8" -> vec_u8_bitwise_hamming_distance(a, b, checks)
      [] k = "slice_u8" -> slice_u8_bitwise_hamming_distance(a, b, checks)
      [] k = "vec" -> vec_hamming_distance(a, b, checks)
      [] k = "slice" -> slice_hamming_distance(a, b, checks)
      [] k = "string" -> string_hamming_distance(a, b, checks)
      [] k = "str" -> borrowed_string_hamming_distance(a, b, checks)

-----------------------------------------------------------------------------
(* Vectors too long to enumerate: vec![x; n], kept as the byte and the     *)
(* length.  Every iteration of the scan of vec![x; n] against vec![y; n]   *)
(* adds the same d, so BlockLen iterations add BlockLen * d: they overflow *)
(* at some iteration exactly when the block's sum does, and wrap to the    *)
(* same value.                                                             *)

\* 0x00, 0x01, 0xFF
LargeBytes == {0, 1, 255}

LargeLens == {k * BlockLen : k \in 0 .. MaxBlocks}

Repeated == [byte : LargeBytes, len : LargeLens]

Min(x, y) == IF x < y THEN x ELSE y

\* `distance += d` for the next block of a repeated vector, to the end
RECURSIVE repeated_loop(_, _, _, _, _)
repeated_loop(d, n, i, distance, checks) ==
    IF i = n THEN Frame(Ok(distance), i)
    ELSE LET m == Min(BlockLen, n - i)
             s == add_assign(distance, u32(m * d), checks)
         IN  IF s.panicked THEN Frame(Panic, i + m)
             ELSE repeated_loop(d, n, i + m, s.val, checks)

\* impl BitwiseHammingDistancable<&Vec<u8>> for &Vec<u8>, on vec![x; n]
vec_u8_bitwise_hamming_distance_repeated(a, b, checks) ==
    IF a.len # b.len
    THEN Frame(Err("Vectors do not have equal length"), 0)
    ELSE repeated_loop(u8_bitwise_hamming_distance(a.byte, b.byte),
                       a.len, 0, u32(0), checks)

\* impl BitwiseHammingDistancable<&[u8]> for &[u8], on &vec![x; n][..]
slice_u8_bitwise_hamming_distance_repeated(a, b, checks) ==
    IF a.len # b.len
    THEN Frame(Err("Slices do not have equal length"), 0)
    ELSE repeated_loop(u8_bitwise_hamming_distance(a.byte, b.byte),
                       a.len, 0, u32(0), checks)

InitLarge ==
    /\ pc = "call"
    /\ result = Frame(Pending, 0)
    /\ overflow_checks \in BOOLEAN
    /\ kind \in {"vec_u8", "slice_u8"}
    /\ self \in Repeated
    /\ other \in Repeated

CallVecU8Repeated ==
    /\ pc = "call"
    /\ kind = "vec_u8"
    /\ result' = vec_u8_bitwise_hamming_distance_repeated(self, other,
                                                          overflow_checks)
    /\ pc' = "done"
    /\ UNCHANGED <<kind, self, other, overflow_checks>>

CallSliceU8Repeated ==
    /\ pc = "call"
    /\ kind = "slice_u8"
    /\ result' = slice_u8_bitwise_hamming_distance_repeated(self, other,
                                                            overflow_checks)
    /\ pc' = "done"
    /\ UNCHANGED <<kind, self, other, overflow_checks>>

NextLarge ==
    \/ CallVecU8Repeated
    \/ CallSliceU8Repeated

SpecLarge == InitLarge /\ [][NextLarge]_vars

-----------------------------------------------------------------------------
(* Reference notions the properties are stated with. *)

BitSeqKinds == {"vec_u8", "slice_u8"}
ElemSeqKinds == {"vec", "slice"}
TextKinds == {"string", "str"}

Done(ks) == pc = "done" /\ kind \in ks

\* bit positions at which two bytes differ
DifferingBits(a, b) ==
    Cardinality({i \in 0 .. U8_BITS - 1 : bit(a, i) # bit(b, i)})

\* bits of a byte that are set
SetBits(x) == Cardinality({i \in 0 .. U8_BITS - 1 : bit(x, i) = 1})

\* the sum over all positions of the byte distance
RECURSIVE SumBitDistance(_, _)
SumBitDistance(a, b) ==
    IF a = <<>> THEN 0
    ELSE u8_bitwise_hamming_distance(Head(a), Head(b))
         + SumBitDistance(Tail(a), Tail(b))

\* index positions at which two sequences of one length differ
Mismatches(a, b) == Cardinality({i \in 1 .. Len(a) : a[i] # b[i]})

\* the characters a text was written with
CharsOf(s) == CHOOSE cs \in SeqsUpTo(Chars, MaxStrChars) : to_owned(cs) = s

\* characters of a text: its bytes that are not continuation bytes
CharCount(s) == Cardinality({i \in 1 .. Len(s) : s[i] \div 64 # 2})

LengthMessage(k) ==
    CASE k \in {"vec_u8", "vec"} -> "Vectors do not have equal length"
      [] k \in {"slice_u8", "slice"} -> "Slices do not have equal length"
      [] k \in TextKinds -> "Strings do not have equal length"

IsErr == result.ret[1] = "Err"
IsOk == result.ret[1] = "Ok"

-----------------------------------------------------------------------------
(* The properties. *)

\* C1: the distance of two bytes is the number of set bits of a XOR b, which
\* is the number of bit positions at which they differ; it lies in 0..8 and
\* the call returns a plain value.
C1_ByteDistanceIsPopcountOfXor ==
    Done({"u8"}) =>
        /\ result.ret[1] = "U32"
        /\ result.ret[2] = SetBits(bitxor(self, other))
        /\ result.ret[2] = DifferingBits(self, other)
        /\ result.ret[2] \in 0 .. 8

C1_Witness ==
    /\ Done({"u8"})
    /\ self = 1
    /\ other = 255
    /\ result.ret = Value(7)

\* C2: on byte sequences of one length (Vec<u8>, &[u8], the empty ones too)
\* the call returns Ok of the sum of the byte distances of all positions.
C2_SeqDistanceIsSumOfByteDistances ==
    (Done(BitSeqKinds) /\ Len(self) = Len(other)) =>
        result.ret = Ok(u32(SumBitDistance(self, other)))

C2_Witness ==
    /\ Done({"vec_u8"})
    /\ self = <<1, 1>>
    /\ other = <<3, 255>>
    /\ result.ret = Ok(u32(8))

\* C3: on byte sequences the call returns Err exactly when the lengths
\* differ, with the message of the representation, and before any pair of
\* bytes was handed to the loop.
C3_ByteSeqLengthMismatch ==
    Done(BitSeqKinds) =>
        /\ IsErr <=> Len(self) # Len(other)
        /\ IsErr => /\ result.ret = Err(LengthMessage(kind))
                    /\ result.scanned = 0

C3_Witness ==
    /\ Done({"vec_u8"})
    /\ self = <<1>>
    /\ other = <<3, 255>>
    /\ result = Frame(Err("Vectors do not have equal length"), 0)

\* C4: on Vec<T> and &[T] the call returns Err with the message of the
\* representation when the lengths differ, and otherwise Ok of the number of
\* index positions at which the elements differ.
C4_ElementDistanceCountsMismatches ==
    Done(ElemSeqKinds) =>
        IF Len(self) # Len(other)
        THEN result.ret = Err(LengthMessage(kind))
        ELSE result.ret = Ok(u32(Mismatches(self, other)))

C4_Witness ==
    /\ Done({"slice"})
    /\ self = <<"a", "a">>
    /\ other = <<"a", "b">>
    /\ result.ret = Ok(u32(1))

\* C5: on texts the call returns Err exactly when the numbers of characters
\* differ, and otherwise Ok of the number of character positions at which
\* the texts differ, whatever the byte widths of the characters.
C5_TextLengthIsCharacterCount ==
    Done(TextKinds) =>
        LET ca == CharsOf(self)
            cb == CharsOf(other)
        IN  IF Len(ca) # Len(cb)
            THEN result.ret = Err("Strings do not have equal length")
            ELSE result.ret = Ok(u32(Mismatches(ca, cb)))

\* C6: every call gives the outcome of the call with its arguments swapped.
C6_Symmetric ==
    pc = "done" =>
        result.ret = Apply(kind, other, self, overflow_checks).ret

C6_Witness ==
    /\ Done({"str"})
    /\ self = to_owned(<<233>>)
    /\ other = to_owned(<<97, 97>>)
    /\ result.ret = Ok(u32(1))

\* C7: a value compared with itself has distance 0: the plain 0 for a byte,
\* Ok(0) and never Err for a sequence or a text of any length.
C7_Reflexive ==
    (pc = "done" /\ self = other) =>
        result.ret = (IF kind = "u8" THEN Value(0) ELSE Ok(u32(0)))

C7_Witness ==
    /\ Done({"string"})
    /\ self = to_owned(<<233, 8364>>)
    /\ other = self
    /\ result.ret = Ok(u32(0))

\* C8: an element distance that is returned is at most the number of
\* elements of the receiver (of its characters, for a text).
C8_ElementDistanceAtMostLength ==
    (Done(ElemSeqKinds \cup TextKinds) /\ IsOk) =>
        to_nat(result.ret[2]) <=
            (IF kind \in TextKinds THEN CharCount(self) ELSE Len(self))

C8_Witness ==
    /\ Done({"str"})
    /\ self = to_owned(<<8364>>)
    /\ other = to_owned(<<97, 233>>)
    /\ CharCount(self) = 1
    /\ result.ret = Ok(u32(1))

\* C9: on byte sequences of one length the u32 accumulator holds the sum:
\* the call returns Ok of the exact sum of the byte distances, 8 * length at
\* most, and does not panic on overflow.
WideProduct(n, d) ==
    LET lo == (n % Limb) * d
        mid == ((n \div Limb) * d) + (lo \div Limb)
    IN  <<mid \div Limb, mid % Limb, lo % Limb>>

C9_AccumulatorHoldsSum ==
    (Done(BitSeqKinds) /\ self.len = other.len) =>
        /\ IsOk
        /\ <<0>> \o result.ret[2] =
               WideProduct(self.len,
                           u8_bitwise_hamming_distance(self.byte, other.byte))

====
